---- MODULE Spec2Model ----
(***************************************************************************)
(* Model of app.py: the /generate-post request pipeline.                   *)
(*                                                                         *)
(* One request is followed from its arrival to its answer.  The handler    *)
(* blocks on four outbound calls (requests.get, then three                 *)
(* openai.ChatCompletion.create); each action below is the code that runs  *)
(* between two such calls, and the answer of the outside service is the    *)
(* action's input.                                                         *)
(*                                                                         *)
(* Text is a sequence of characters.  A fixed literal of the source (a     *)
(* prompt fragment, an error prefix) is kept as one opaque character.      *)
(***************************************************************************)
EXTENDS Naturals, Sequences, FiniteSets

VARIABLES
    OPENAI_API_KEY,     \* app.py:14  TRUE iff the variable is set (truthy)
    CURRENTS_API_KEY,   \* app.py:15
    pc,                 \* where the handler is: idle, news, title, meta, body, done
    topic,              \* Topic.topic of the request
    calls,              \* outbound calls issued so far, in order
    news_reply,         \* what requests.get produced
    completions,        \* what the ChatCompletion.create calls produced, in order
    recent_news,        \* local of generate_content
    title,              \* local of generate_content
    meta_description,   \* local of generate_content
    post_content,       \* local of generate_content
    response            \* what generate_post_api hands to the framework

vars == <<OPENAI_API_KEY, CURRENTS_API_KEY, pc, topic, calls, news_reply,
          completions, recent_news, title, meta_description, post_content,
          response>>

----------------------------------------------------------------------------
(* Bounds and input alphabets *)

MaxArticles == 6

NL == "\n"
SP == " "

Whitespace == {NL, SP}

Topics == {<<>>, <<"t">>}

\* article["title"] values the news endpoint may send
Titles == {<<"a">>, <<"b">>, <<"a", NL, "b">>}

\* message.content values the completion endpoint may send
Contents == {<<SP>>, <<"x">>, <<SP, "y", NL>>}

\* exceptions requests.get may raise
NetErrors == {"ConnectionError", "Timeout"}

\* exceptions the completion expression may raise
GenErrors == {"RateLimitError", "IndexError"}

StatusCodes == {200, 404, 503}

ErrorTexts == {<<"e">>}

RECURSIVE SeqsUpTo(_, _)
SeqsUpTo(S, n) ==
    IF n = 0 THEN {<<>>}
    ELSE LET shorter == SeqsUpTo(S, n - 1)
         IN  shorter \cup {Append(s, x) : s \in {r \in shorter : Len(r) = n - 1}, x \in S}

NewsLists == SeqsUpTo(Titles, MaxArticles)

----------------------------------------------------------------------------
(* Literals of the source *)

OpenAIKeyMissing == <<"OPENAI_API_KEY is not set">>
CurrentsKeyMissing == <<"CURRENTS_API_KEY is not set">>
NewsErrorPrefix == <<"news fetch error: ">>
NoNewsFound == <<"no fresh news found.">>
GenerationErrorPrefix == <<"content generation error: ">>

NewsLimit == 5

----------------------------------------------------------------------------
(* Pure helpers *)

Min(a, b) == IF a < b THEN a ELSE b

Take(s, n) == SubSeq(s, 1, Min(n, Len(s)))

RECURSIVE lstrip(_)
lstrip(s) ==
    IF s # <<>> /\ Head(s) \in Whitespace THEN lstrip(Tail(s)) ELSE s

RECURSIVE rstrip(_)
rstrip(s) ==
    IF s # <<>> /\ s[Len(s)] \in Whitespace
    THEN rstrip(SubSeq(s, 1, Len(s) - 1))
    ELSE s

strip(s) == rstrip(lstrip(s))

\* "\n".join(parts)
RECURSIVE join(_)
join(parts) ==
    IF parts = <<>> THEN <<>>
    ELSE IF Len(parts) = 1 THEN parts[1]
    ELSE parts[1] \o <<NL>> \o join(Tail(parts))

\* the lines of a text: its pieces between newline characters
RECURSIVE SplitLines(_)
SplitLines(s) ==
    IF \A i \in 1..Len(s) : s[i] # NL THEN <<s>>
    ELSE LET k == CHOOSE i \in 1..Len(s) :
                      s[i] = NL /\ \A j \in 1..(i - 1) : s[j] # NL
         IN  <<SubSeq(s, 1, k - 1)>> \o SplitLines(SubSeq(s, k + 1, Len(s)))

----------------------------------------------------------------------------
(* Values handed to the framework *)

HTTPException(detail) ==
    [kind |-> "HTTPException", status_code |-> 500, detail |-> detail,
     exc |-> "", value |-> <<>>]

\* an exception that is no HTTPException leaves generate_post_api uncaught;
\* the framework answers it with a bare 500 that has no detail field
Unhandled(e) ==
    [kind |-> "Exception", status_code |-> 500, detail |-> <<>>,
     exc |-> e, value |-> <<>>]

Returned(v) ==
    [kind |-> "return", status_code |-> 200, detail |-> <<>>,
     exc |-> "", value |-> v]

NoResponse ==
    [kind |-> "none", status_code |-> 0, detail |-> <<>>,
     exc |-> "", value |-> <<>>]

----------------------------------------------------------------------------
(* Outbound calls and the answers of the outside services *)

NewsCall(t) ==
    [api |-> "requests.get", max_tokens |-> 0, content |-> t]

CompletionCall(limit, prompt) ==
    [api |-> "ChatCompletion.create", max_tokens |-> limit, content |-> prompt]

NewsRaised(e) ==
    [outcome |-> "raise", exc |-> e, status_code |-> 0, text |-> <<>>,
     json_ok |-> FALSE, news |-> <<>>]

NewsAnswered(code, text, ok, news) ==
    [outcome |-> "response", exc |-> "", status_code |-> code, text |-> text,
     json_ok |-> ok, news |-> news]

NoNewsReply ==
    [outcome |-> "none", exc |-> "", status_code |-> 0, text |-> <<>>,
     json_ok |-> FALSE, news |-> <<>>]

NewsReplies ==
    {NewsRaised(e) : e \in NetErrors}
    \cup {NewsAnswered(c, t, FALSE, <<>>) : c \in StatusCodes \ {200}, t \in ErrorTexts}
    \cup {NewsAnswered(200, <<>>, FALSE, <<>>)}
    \cup {NewsAnswered(200, <<>>, TRUE, n) : n \in NewsLists}

CompletionRaised(e) == [outcome |-> "raise", exc |-> e, content |-> <<>>]

CompletionAnswered(c) == [outcome |-> "ok", exc |-> "", content |-> c]

CompletionReplies ==
    {CompletionRaised(e) : e \in GenErrors}
    \cup {CompletionAnswered(c) : c \in Contents}

----------------------------------------------------------------------------
(* get_recent_news *)

\* variant: the slice [:5] is left out
get_recent_news_return_unsliced(news_data) ==
    IF news_data = <<>>
    THEN NoNewsFound
    ELSE join(news_data)

\* variant: the empty-list test is left out
get_recent_news_return_nosentinel(news_data) ==
    join(Take(news_data, NewsLimit))

\* app.py:44-48, the value returned for a parsed "news" list
get_recent_news_return(news_data) ==
    IF news_data = <<>>
    THEN NoNewsFound
    ELSE join(Take(news_data, NewsLimit))

\* variant: get_recent_news called inside the try block, so that the
\* except clause re-wraps its HTTPException
news_failure_rewrapped(r) ==
    HTTPException(GenerationErrorPrefix \o NewsErrorPrefix \o r.text)

\* app.py:38-43, raised outside the try block of generate_content
news_failure(r) == HTTPException(NewsErrorPrefix \o r.text)

----------------------------------------------------------------------------
(* generate_content *)

TitlePrompt(t, news) ==
    <<"title prompt for '">> \o t \o <<"' with news:", NL>> \o news
        \o <<". title prompt end">>

\* variant: the topic is embedded in place of the generated title
MetaPrompt_topic(ttl) ==
    <<"meta prompt for title: '">> \o topic \o <<"'. meta prompt end">>

MetaPrompt(ttl) ==
    <<"meta prompt for title: '">> \o ttl \o <<"'. meta prompt end">>

BodyPrompt(t, news) ==
    <<"article prompt for '">> \o t \o <<"' with news:", NL>> \o news
        \o <<".", NL, "article prompt end">>

\* variant: no except clause, the cause leaves the handler as it is
generation_failure_uncaught(e) == Unhandled(e)

\* app.py:123-128
generation_failure(e) == HTTPException(GenerationErrorPrefix \o <<e>>)

Finish(r) ==
    /\ pc' = "done"
    /\ response' = r

\* variant: the CURRENTS_API_KEY check is left out
get_recent_news_unchecked(t) ==
    /\ calls' = Append(calls, NewsCall(t))
    /\ pc' = "news"
    /\ UNCHANGED response

\* app.py:25-37: key check, then the GET is issued
get_recent_news(t) ==
    IF ~CURRENTS_API_KEY
    THEN /\ Finish(HTTPException(CurrentsKeyMissing))
         /\ UNCHANGED calls
    ELSE /\ calls' = Append(calls, NewsCall(t))
         /\ pc' = "news"
         /\ UNCHANGED response

\* variant: the OPENAI_API_KEY check is left out
generate_content_unchecked(t) == get_recent_news(t)

\* app.py:51-57: key check, then get_recent_news is entered
generate_content(t) ==
    IF ~OPENAI_API_KEY
    THEN /\ Finish(HTTPException(OpenAIKeyMissing))
         /\ UNCHANGED calls
    ELSE get_recent_news(t)

----------------------------------------------------------------------------
(* Actions *)

Init ==
    /\ OPENAI_API_KEY \in BOOLEAN
    /\ CURRENTS_API_KEY \in BOOLEAN
    /\ pc = "idle"
    /\ topic = <<>>
    /\ calls = <<>>
    /\ news_reply = NoNewsReply
    /\ completions = <<>>
    /\ recent_news = <<>>
    /\ title = <<>>
    /\ meta_description = <<>>
    /\ post_content = <<>>
    /\ response = NoResponse

\* POST /generate-post arrives; runs up to the first outbound call
generate_post_api ==
    /\ pc = "idle"
    /\ \E t \in Topics :
          /\ topic' = t
          /\ generate_content(t)
    /\ UNCHANGED <<OPENAI_API_KEY, CURRENTS_API_KEY, news_reply, completions,
                   recent_news, title, meta_description, post_content>>

\* requests.get ends; runs up to the title completion call
news_response ==
    /\ pc = "news"
    /\ \E r \in NewsReplies :
          /\ news_reply' = r
          /\ IF r.outcome = "raise"
             THEN /\ Finish(Unhandled(r.exc))
                  /\ UNCHANGED <<calls, recent_news>>
             ELSE IF r.status_code # 200
             THEN /\ Finish(news_failure(r))
                  /\ UNCHANGED <<calls, recent_news>>
             ELSE IF ~r.json_ok
             THEN /\ Finish(Unhandled("JSONDecodeError"))
                  /\ UNCHANGED <<calls, recent_news>>
             ELSE /\ recent_news' = get_recent_news_return(r.news)
                  /\ calls' = Append(calls,
                        CompletionCall(60, TitlePrompt(topic, recent_news')))
                  /\ pc' = "title"
                  /\ UNCHANGED response
    /\ UNCHANGED <<OPENAI_API_KEY, CURRENTS_API_KEY, topic, completions,
                   title, meta_description, post_content>>

\* the title completion ends; runs up to the meta-description call
title_response ==
    /\ pc = "title"
    /\ \E c \in CompletionReplies :
          /\ completions' = Append(completions, c)
          /\ IF c.outcome = "raise"
             THEN /\ Finish(generation_failure(c.exc))
                  /\ UNCHANGED <<calls, title>>
             ELSE /\ title' = strip(c.content)
                  /\ calls' = Append(calls, CompletionCall(120, MetaPrompt(title')))
                  /\ pc' = "meta"
                  /\ UNCHANGED response
    /\ UNCHANGED <<OPENAI_API_KEY, CURRENTS_API_KEY, topic, news_reply,
                   recent_news, meta_description, post_content>>

\* the meta-description completion ends; runs up to the article call
meta_response ==
    /\ pc = "meta"
    /\ \E c \in CompletionReplies :
          /\ completions' = Append(completions, c)
          /\ IF c.outcome = "raise"
             THEN /\ Finish(generation_failure(c.exc))
                  /\ UNCHANGED <<calls, meta_description>>
             ELSE /\ meta_description' = strip(c.content)
                  /\ calls' = Append(calls,
                        CompletionCall(100, BodyPrompt(topic, recent_news)))
                  /\ pc' = "body"
                  /\ UNCHANGED response
    /\ UNCHANGED <<OPENAI_API_KEY, CURRENTS_API_KEY, topic, news_reply,
                   recent_news, title, post_content>>

\* the article completion ends; the handler returns
body_response ==
    /\ pc = "body"
    /\ \E c \in CompletionReplies :
          /\ completions' = Append(completions, c)
          /\ IF c.outcome = "raise"
             THEN /\ Finish(generation_failure(c.exc))
                  /\ UNCHANGED post_content
             ELSE /\ post_content' = strip(c.content)
                  /\ Finish(Returned([title |-> title,
                                      meta_description |-> meta_description,
                                      post_content |-> post_content']))
    /\ UNCHANGED <<OPENAI_API_KEY, CURRENTS_API_KEY, topic, calls, news_reply,
                   recent_news, title, meta_description>>

Next ==
    \/ generate_post_api
    \/ news_response
    \/ title_response
    \/ meta_response
    \/ body_response

Spec == Init /\ [][Next]_vars

----------------------------------------------------------------------------
(* Properties *)

ContentFields == {"title", "meta_description", "post_content"}

IsCompletion(c) == c.api = "ChatCompletion.create"

IsNewsCall(c) == c.api = "requests.get"

NewsSucceeded ==
    /\ news_reply.outcome = "response"
    /\ news_reply.status_code = 200
    /\ news_reply.json_ok

\* part occurs in text as a contiguous piece
Embeds(text, part) ==
    \E i \in 1..(Len(text) - Len(part) + 1) :
        SubSeq(text, i, i + Len(part) - 1) = part

HasNewline(s) == \E i \in 1..Len(s) : s[i] = NL

\* C1: when any of the three completion calls fails, the handler ends with
\* the generation error (HTTPException 500 whose detail carries the cause)
\* and the result has none of title, meta_description, post_content.
C1_CompletionFailureIsGenerationError ==
    \A i \in 1..Len(completions) :
        completions[i].outcome = "raise" =>
            /\ pc = "done"
            /\ response.kind = "HTTPException"
            /\ response.status_code = 500
            /\ response.detail = GenerationErrorPrefix \o <<completions[i].exc>>
            /\ DOMAIN response.value \cap ContentFields = {}

\* the third call fails after title and meta-description were produced
C1_Witness ==
    /\ Len(completions) = 3
    /\ completions[3].outcome = "raise"
    /\ title # <<>>
    /\ meta_description # <<>>
    /\ pc = "done"

\* C2: with OPENAI_API_KEY unset the handler ends with the configuration
\* error and issues no outbound call at all, whatever CURRENTS_API_KEY is.
C2_NoModelKeyNoCalls ==
    ~OPENAI_API_KEY =>
        /\ calls = <<>>
        /\ pc \in {"idle", "done"}
        /\ pc = "done" =>
              /\ response.kind = "HTTPException"
              /\ response.status_code = 500
              /\ response.detail = OpenAIKeyMissing

C2_Witness ==
    /\ ~OPENAI_API_KEY
    /\ CURRENTS_API_KEY
    /\ pc = "done"

\* C3: a non-200 answer of the news endpoint ends the handler with the
\* news error as get_recent_news raised it (not re-wrapped as a generation
\* error), and no completion call is made.
C3_NewsStatusFailurePropagates ==
    (news_reply.outcome = "response" /\ news_reply.status_code # 200) =>
        /\ pc = "done"
        /\ response.kind = "HTTPException"
        /\ response.status_code = 500
        /\ response.detail = NewsErrorPrefix \o news_reply.text
        /\ completions = <<>>
        /\ \A i \in 1..Len(calls) : ~IsCompletion(calls[i])

C3_Witness ==
    /\ news_reply.outcome = "response"
    /\ news_reply.status_code = 404
    /\ pc = "done"

\* C4: with CURRENTS_API_KEY unset get_recent_news fails with the
\* configuration error and no outbound call is issued, for every topic.
C4_NoNewsKeyNoCalls ==
    ~CURRENTS_API_KEY =>
        /\ \A i \in 1..Len(calls) : ~IsNewsCall(calls[i])
        /\ calls = <<>>
        /\ (OPENAI_API_KEY /\ pc = "done") =>
              /\ response.kind = "HTTPException"
              /\ response.status_code = 500
              /\ response.detail = CurrentsKeyMissing

C4_Witness ==
    /\ ~CURRENTS_API_KEY
    /\ OPENAI_API_KEY
    /\ topic = <<"t">>
    /\ pc = "done"

\* C5: every way POST /generate-post ends is either the complete
\* three-field body or a status-500 failure with one detail string.
C5_EveryFailureIsDetail500 ==
    pc = "done" =>
        \/ /\ response.kind = "return"
           /\ DOMAIN response.value = ContentFields
        \/ /\ response.kind = "HTTPException"
           /\ response.status_code = 500
           /\ response.detail # <<>>

\* C6: a network-level failure of the news call ends get_recent_news with
\* the news-fetch error, the kind a non-success status gives.
C6_NetworkFailureIsNewsFetchError ==
    news_reply.outcome = "raise" =>
        /\ pc = "done"
        /\ response.kind = "HTTPException"
        /\ response.status_code = 500
        /\ Len(response.detail) >= 1
        /\ SubSeq(response.detail, 1, 1) = NewsErrorPrefix

\* C7 as stated: for n >= 1 articles the digest has exactly min(n, 5)
\* lines and line i is the title of article i.
C7_DigestLinesAreTitles ==
    (NewsSucceeded /\ Len(news_reply.news) >= 1) =>
        LET lines == SplitLines(recent_news)
            n == Len(news_reply.news)
        IN  /\ Len(lines) <= NewsLimit
            /\ Len(lines) = Min(n, NewsLimit)
            /\ \A i \in 1..Len(lines) : lines[i] = news_reply.news[i]

\* C7 amended: the same, for article lists whose first min(n, 5) titles
\* hold no newline character.
C7_DigestLinesAreTitlesNoNewline ==
    (/\ NewsSucceeded
     /\ Len(news_reply.news) >= 1
     /\ \A i \in 1..Min(Len(news_reply.news), NewsLimit) :
            ~HasNewline(news_reply.news[i])) =>
        LET lines == SplitLines(recent_news)
            n == Len(news_reply.news)
        IN  /\ Len(lines) <= NewsLimit
            /\ Len(lines) = Min(n, NewsLimit)
            /\ \A i \in 1..Len(lines) : lines[i] = news_reply.news[i]

\* more than five articles, different titles, none of the first five with
\* a newline
C7_Witness ==
    /\ NewsSucceeded
    /\ Len(news_reply.news) > NewsLimit
    /\ news_reply.news[1] # news_reply.news[2]
    /\ \A i \in 1..NewsLimit : ~HasNewline(news_reply.news[i])
    /\ HasNewline(news_reply.news[NewsLimit + 1])
    /\ pc = "title"

\* C8: for zero articles the digest is exactly the fixed sentinel, never
\* the empty string, and the sentinel is what the title prompt and the
\* article prompt embed.
C8_EmptyNewsGivesSentinel ==
    (NewsSucceeded /\ news_reply.news = <<>>) =>
        /\ recent_news = NoNewsFound
        /\ recent_news # <<>>
        /\ Len(calls) >= 2
        /\ Embeds(calls[2].content, NoNewsFound)
        /\ Len(calls) >= 4 => Embeds(calls[4].content, NoNewsFound)

C8_Witness ==
    /\ NewsSucceeded
    /\ news_reply.news = <<>>
    /\ Len(calls) = 4
    /\ calls[4].max_tokens = 100

\* C9: a successful return has exactly the three fields, each a non-empty
\* string, whatever text the completion endpoint sent.
C9_SuccessFieldsNonEmpty ==
    response.kind = "return" =>
        /\ DOMAIN response.value = ContentFields
        /\ \A f \in ContentFields : response.value[f] # <<>>

\* C10: the outbound calls are news, title, meta-description, article, in
\* that order, each at most once and only after the one before succeeded
\* (so at most four); the meta-description prompt embeds the title the title
\* completion produced; the first failure is the last call.
C10_CallOrder ==
    /\ Len(calls) <= 4
    /\ Len(completions) <= 3
    /\ \A i \in 1..Len(calls) :
          /\ calls[i].max_tokens = <<0, 60, 120, 100>>[i]
          /\ IsNewsCall(calls[i]) <=> i = 1
          /\ IsCompletion(calls[i]) <=> i > 1
          /\ i >= 2 => NewsSucceeded
          /\ \A j \in 1..(i - 2) :
                j <= Len(completions) /\ completions[j].outcome = "ok"
    /\ Len(calls) >= 3 =>
          /\ title = strip(completions[1].content)
          /\ SubSeq(calls[3].content, 2, Len(calls[3].content) - 1) = title
    /\ (news_reply.outcome # "none" /\ ~NewsSucceeded) =>
          Len(calls) = 1 /\ pc = "done"
    /\ \A j \in 1..Len(completions) :
          completions[j].outcome = "raise" =>
              /\ j = Len(completions)
              /\ Len(calls) = j + 1
              /\ pc = "done"

\* all four calls were made and the title was not empty
C10_Witness ==
    /\ Len(calls) = 4
    /\ title = <<"y">>
    /\ pc = "done"
    /\ response.kind = "return"

====
